---------------------------- MODULE Spec2Model ----------------------------
(***************************************************************************)
(* port-wait: polling of TCP / HTTP targets with exponential backoff.      *)
(*                                                                         *)
(* The model covers src/port_wait/waiter.py (WaitResult, PortWaiter) and   *)
(* the part of src/port_wait/cli.py that calls it and turns the results    *)
(* into an exit code.  Time is discrete: one unit is the resolution of the *)
(* clock read by time.time().  A probe call lasts between 0 and            *)
(* connection_timeout units, a sleep lasts exactly its interval, every     *)
(* other statement of wait_for_target takes no time.                       *)
(***************************************************************************)
EXTENDS Integers, Sequences, FiniteSets, TLC

(***************************************************************************)
(* Bounds of the model.                                                    *)
(***************************************************************************)
MaxTargets     == 2   \* number of positional targets is 1..MaxTargets
MaxTimeout     == 4   \* --timeout is drawn from 0..MaxTimeout
MaxInterval    == 3   \* --interval and --max-interval from 1..MaxInterval
MaxConnTimeout == 1   \* --connection-timeout from 0..MaxConnTimeout

(***************************************************************************)
(* Strings.  A target string is a sequence of tokens: the scheme prefixes  *)
(* "http://" and "https://" are one token each, every other token is one   *)
(* character.                                                              *)
(***************************************************************************)
Digits == <<"0", "1", "2", "3", "4", "5", "6", "7", "8", "9">>

IsDigit(c) == \E d \in 1..10 : Digits[d] = c

DigitValue(c) == (CHOOSE d \in 1..10 : Digits[d] = c) - 1

TcpTarget      == <<"h", ":", "8", "0">>                  \* "h:80"
HttpTarget     == <<"http://", "h", ":", "8", "0">>       \* "http://h:80"
NoColonTarget  == <<"h">>                                 \* "h"
BadPortTarget  == <<"h", ":", "x">>                       \* "h:x"
BigPortTarget  == <<"h", ":", "7", "0", "0", "0", "0">>   \* "h:70000"

TargetStrings ==
    {TcpTarget, HttpTarget, NoColonTarget, BadPortTarget, BigPortTarget}

\* target.startswith("http://") or target.startswith("https://")
IsHttp(target) ==
    /\ Len(target) > 0
    /\ target[1] \in {"http://", "https://"}

\* position of the last ":" of the target, 0 when there is none
LastColon(target) ==
    LET cs == {k \in 1..Len(target) : target[k] = ":"}
    IN  IF cs = {} THEN 0 ELSE CHOOSE k \in cs : \A j \in cs : j <= k

\* target.rsplit(":", 1): a list of one or two strings
rsplit(target) ==
    LET k == LastColon(target)
    IN  IF k = 0
          THEN <<target>>
          ELSE <<SubSeq(target, 1, k - 1), SubSeq(target, k + 1, Len(target))>>

\* int(port) raises ValueError unless port is a non-empty digit string
IsInt(s) == Len(s) > 0 /\ \A k \in 1..Len(s) : IsDigit(s[k])

RECURSIVE int(_)
int(s) ==
    IF Len(s) = 0 THEN 0
    ELSE 10 * int(SubSeq(s, 1, Len(s) - 1)) + DigitValue(s[Len(s)])

\* host, port = target.rsplit(":", 1); int(port)  raises ValueError
RaisesValueError(target) ==
    IF Len(rsplit(target)) # 2 THEN TRUE ELSE ~IsInt(rsplit(target)[2])

\* sock.connect_ex((host, port)) accepts a port of 16 bits only
PortInRange(port) == port >= 0 /\ port < 2^16

(***************************************************************************)
(* WaitResult                                                              *)
(***************************************************************************)
NoError == [text |-> "None", arg |-> -1]

\* the timeout outcome is built without its message
TimeoutError_Missing(t) == NoError

TimeoutError(t) == [text |-> "Timeout after {timeout}s", arg |-> t]

InvalidError ==
    [text |-> "Invalid target format. Use host:port or http(s)://url",
     arg |-> -1]

WaitResult(success, target, n, elapsed, error) ==
    [success |-> success, target |-> target, attempts |-> n,
     elapsed |-> elapsed, error |-> error]

\* value of a future that has no result
NoResult == WaitResult(FALSE, <<>>, -1, -1, NoError)

(***************************************************************************)
(* Probes.  The network's answer to one probe is an event: for a TCP       *)
(* connect the code returned by connect_ex or the exception it raises, for *)
(* an HTTP request the status of the response or the exception raised.     *)
(***************************************************************************)
Returned(v) == [raised |-> FALSE, value |-> v]
Raised      == [raised |-> TRUE, value |-> FALSE]

TcpUp   == {[exc |-> "none", code |-> 0]}
TcpDown == {[exc |-> "none", code |-> 111],
            [exc |-> "gaierror", code |-> -1],
            [exc |-> "timeout", code |-> -1],
            [exc |-> "OSError", code |-> -1]}

\* PortWaiter.check_tcp_port
check_tcp_port(port, ev) ==
    IF ~PortInRange(port) THEN Raised                 \* OverflowError
    ELSE IF ev.exc = "none" THEN Returned(ev.code = 0)
    ELSE IF ev.exc \in {"gaierror", "timeout", "OSError"} THEN Returned(FALSE)
    ELSE Raised

\* no probe has returned
NoAnswer == [exc |-> "none", code |-> -1]

StatusCodes == {200, 201, 500}

HttpEvents ==
    [exc : {"none"}, code : StatusCodes]
        \cup {[exc |-> "RequestException", code |-> -1]}

\* the status is accepted when the response is not an error response
check_http_endpoint_NotError(expected, ev) ==
    IF ev.exc = "none" THEN Returned(ev.code < 400) ELSE Returned(FALSE)

\* PortWaiter.check_http_endpoint
check_http_endpoint(expected, ev) ==
    IF ev.exc = "none" THEN Returned(ev.code = expected) ELSE Returned(FALSE)

\* the events a target in state e ("up", "down", "flaky") can answer with
Events(target, e, expected) ==
    LET all == IF IsHttp(target) THEN HttpEvents ELSE TcpUp \cup TcpDown
        ok  == IF IsHttp(target)
                 THEN {ev \in HttpEvents : ev.exc = "none" /\ ev.code = expected}
                 ELSE TcpUp
    IN  CASE e = "up"   -> ok
          [] e = "down" -> all \ ok
          [] OTHER      -> all

\* one probe of wait_for_target, lines 68-78
Probe(target, expected, ev) ==
    IF IsHttp(target)
      THEN check_http_endpoint(expected, ev)
      ELSE check_tcp_port(int(rsplit(target)[2]), ev)

(***************************************************************************)
(* The conditions and the arithmetic of the retry loop and the coordinator *)
(***************************************************************************)
Min(a, b) == IF a <= b THEN a ELSE b

\* attempts = 1 written for attempts += 1
Increment_Reset(n) == 1

\* attempts += 1
Increment(n) == n + 1

\* the loop gives up one clock unit early
LoopCondition_Early(elapsed, t) == elapsed + 1 < t

\* while time.time() - start_time < self.timeout
LoopCondition(elapsed, t) == elapsed < t

\* interval = min(interval * 2, self.max_interval)
Backoff(i, max) == Min(i * 2, max)

\* the backoff is applied before the sleep instead of after it
SleepTime_Doubled(i) == i * 2

\* time.sleep(interval): how long the loop is suspended
SleepTime(i) == i

\* the mode is not consulted: any success ends the collection
EarlyReturn_AnySuccess(all, result) == result.success

\* the for loop has no early return
EarlyReturn_Never(all, result) == FALSE

\* ALL mode gives up at the first failure
EarlyReturn_FailFast(all, result) == IF all THEN ~result.success ELSE result.success

\* if not all_mode and result.success
EarlyReturn(all, result) == ~all /\ result.success

\* all(r.success for r in results)
all_success(rs) == \A k \in 1..Len(rs) : rs[k].success

\* any(r.success for r in results)
any_success(rs) == \E k \in 1..Len(rs) : rs[k].success

\* the mode is not consulted: every result must be a success
OverallSuccess_AllOnly(any, rs) == all_success(rs)

\* success = any_success if any_mode else all_success
OverallSuccess(any, rs) == IF any THEN any_success(rs) ELSE all_success(rs)

\* sys.exit(0 if success else 1)
\* cli.py lines 67-82: the calls of print that report the results
Report(json, q, ok, rs) ==
    IF json THEN 1
    ELSE IF ~q \/ ~ok THEN Len(rs)
    ELSE 0

ExitCode(success) == IF success THEN 0 ELSE 1

(***************************************************************************)
(* State                                                                   *)
(***************************************************************************)
VARIABLES
    targets,            \* the positional arguments, a sequence of strings
    env,                \* env[i]: how the endpoint of targets[i] behaves
    timeout,            \* PortWaiter.timeout
    initial_interval,   \* PortWaiter.initial_interval
    max_interval,       \* PortWaiter.max_interval
    connection_timeout, \* PortWaiter.connection_timeout
    expected_status,    \* kwargs["expected_status"]
    any_mode,           \* --any
    verbose,            \* --verbose
    quiet,              \* --quiet, unset until main reads it
    json_output,        \* --json, unset until main reads it
    printed,            \* the calls of print made so far
    now,                \* the clock read by time.time()
    pc,                 \* where main / wait_for_multiple is
    wpc,                \* wpc[i]: where the call wait_for_target(targets[i]) is
    start_time,         \* start_time[i], local of wait_for_target
    attempts,           \* attempts[i], local of wait_for_target
    interval,           \* interval[i], local of wait_for_target
    until,              \* until[i]: when the probe must have returned / the sleep ends
    nprobes,            \* nprobes[i]: calls of check_tcp_port / check_http_endpoint
    nsleeps,            \* nsleeps[i]: calls of time.sleep
    answer,             \* answer[i]: the event the probe of targets[i] has met
    success,            \* success[i], local of wait_for_target
    value,              \* value[i]: what wait_for_target(targets[i]) returned
    completed,          \* the futures in the order they completed
    snap,               \* as_completed: the futures found finished when it began
    yielded,            \* as_completed: the futures it has yielded
    results,            \* results of wait_for_multiple / of main
    raising,            \* wait_for_multiple is leaving by an exception
    exit_code           \* the process exit status, -1 while running

config == <<targets, env, timeout, initial_interval, max_interval,
            connection_timeout, expected_status, any_mode, verbose>>

worker == <<wpc, start_time, attempts, interval, until, nprobes, nsleeps,
            answer, success, value, completed>>

coord == <<pc, snap, yielded, results, raising, exit_code>>

output == <<quiet, json_output, printed>>

vars == <<config, now, worker, coord, output>>

Workers == 1..Len(targets)

all_mode == ~any_mode

Running(i) == wpc[i] \in {"loop", "probe", "check", "sleep"}

Terminal(i) == wpc[i] \in {"done", "raised", "cancelled"}

\* the with block is left without waiting for the threads of the pool
AllJoined_NoWait == TRUE

\* the join that ends the with block has every thread of the pool finished
AllJoined == \A i \in Workers : Terminal(i)

Envs == {"up", "down", "flaky"}

\* a target that reaches a probe, whose result then depends on the endpoint
Probed(target) ==
    IF IsHttp(target) THEN TRUE
    ELSE IF RaisesValueError(target) THEN FALSE
    ELSE PortInRange(int(rsplit(target)[2]))

\* the endpoints: a target string and how the network answers its probes
Endpoints ==
    {e \in [target : TargetStrings, env : Envs] :
        ~Probed(e.target) => e.env = "down"}

\* the configurations run with several targets: the timing is one of a few
\* fixed cases, the variety is in the targets and their interleaving
SeveralEndpoints ==
    {e \in Endpoints :
        \/ e.target = TcpTarget /\ e.env \in {"up", "down"}
        \/ e.target = HttpTarget /\ e.env = "flaky"
        \/ e.target \in {NoColonTarget, BigPortTarget}}

SeveralTimeouts == {0, 2}

\* one target: every timing within the bounds, every endpoint
InitSingle ==
    /\ \E e \in Endpoints :
         /\ targets = <<e.target>>
         /\ env = <<e.env>>
    /\ timeout \in 0..MaxTimeout
    /\ initial_interval \in 1..MaxInterval
    /\ max_interval \in 1..MaxInterval
    /\ connection_timeout \in 0..MaxConnTimeout
    /\ expected_status \in {200, 201}
    /\ any_mode \in BOOLEAN
    /\ verbose \in BOOLEAN

\* several targets
InitSeveral ==
    /\ \E n \in 2..MaxTargets :
         \E eps \in [1..n -> SeveralEndpoints] :
            /\ targets = [i \in 1..n |-> eps[i].target]
            /\ env = [i \in 1..n |-> eps[i].env]
    /\ timeout \in SeveralTimeouts
    /\ initial_interval = 1
    /\ max_interval = 2
    /\ connection_timeout = 1
    /\ expected_status = 200
    /\ any_mode \in BOOLEAN
    /\ verbose \in BOOLEAN

Init ==
    /\ InitSingle \/ InitSeveral
    /\ now = 0
    /\ pc = "main"
    /\ wpc = [i \in Workers |-> "idle"]
    /\ start_time = [i \in Workers |-> 0]
    /\ attempts = [i \in Workers |-> 0]
    /\ interval = [i \in Workers |-> 0]
    /\ until = [i \in Workers |-> 0]
    /\ nprobes = [i \in Workers |-> 0]
    /\ nsleeps = [i \in Workers |-> 0]
    /\ answer = [i \in Workers |-> NoAnswer]
    /\ success = [i \in Workers |-> FALSE]
    /\ value = [i \in Workers |-> NoResult]
    /\ completed = <<>>
    /\ snap = {}
    /\ yielded = {}
    /\ results = <<>>
    /\ raising = FALSE
    /\ exit_code = -1
    /\ quiet = FALSE
    /\ json_output = FALSE
    /\ printed = 0

(***************************************************************************)
(* wait_for_target run on its own: the outcomes the call can return for a  *)
(* target and an endpoint, when it is at the loop condition with el units  *)
(* elapsed, n attempts made and interval iv.                               *)
(***************************************************************************)
RECURSIVE Solo(_, _, _, _, _)
Solo(target, e, el, n, iv) ==
    IF ~LoopCondition(el, timeout)
      THEN {WaitResult(FALSE, target, n, el, TimeoutError(timeout))}
    ELSE IF ~Probed(target)
      THEN IF IsHttp(target) \/ ~RaisesValueError(target)
             THEN {}                                   \* the probe raises
             ELSE {WaitResult(FALSE, target, n + 1, el, InvalidError)}
    ELSE LET rs == {Probe(target, expected_status, ev) :
                       ev \in Events(target, e, expected_status)}
         IN  UNION {
               (IF Returned(TRUE) \in rs
                  THEN {WaitResult(TRUE, target, n + 1, el + d, NoError)}
                  ELSE {})
               \cup
               (IF Returned(FALSE) \in rs
                  THEN Solo(target, e, el + d + SleepTime(iv), n + 1,
                            Backoff(iv, max_interval))
                  ELSE {}) : d \in 0..connection_timeout}

(***************************************************************************)
(* wait_for_target: one call per target, worker i runs it on targets[i]    *)
(***************************************************************************)
Elapsed(i) == now - start_time[i]

\* the call returns r: the future of worker i completes
Return(i, r) ==
    /\ wpc' = [wpc EXCEPT ![i] = "done"]
    /\ value' = [value EXCEPT ![i] = r]
    /\ completed' = Append(completed, i)

\* lines 61-63, entered by a pool thread that took the work item
Start(i) ==
    /\ wpc[i] = "pending"
    /\ wpc' = [wpc EXCEPT ![i] = "loop"]
    /\ start_time' = [start_time EXCEPT ![i] = now]
    /\ attempts' = [attempts EXCEPT ![i] = 0]
    /\ interval' = [interval EXCEPT ![i] = initial_interval]
    /\ UNCHANGED <<output, answer, success, config, now, until, nprobes, nsleeps, value, completed, coord>>

\* lines 65-78: the loop condition holds and the target reaches a probe
Attempt(i) ==
    /\ wpc[i] = "loop"
    /\ LoopCondition(Elapsed(i), timeout)
    /\ IF IsHttp(targets[i]) THEN TRUE ELSE ~RaisesValueError(targets[i])
    /\ attempts' = [attempts EXCEPT ![i] = Increment(@)]
    /\ nprobes' = [nprobes EXCEPT ![i] = @ + 1]
    /\ until' = [until EXCEPT ![i] = now + connection_timeout]
    /\ wpc' = [wpc EXCEPT ![i] = "probe"]
    /\ UNCHANGED <<output, answer, success, config, now, start_time, interval, nsleeps, value, completed,
                   coord>>

\* lines 65-66, 75-81: the loop condition holds and the target does not parse
InvalidTarget(i) ==
    /\ wpc[i] = "loop"
    /\ LoopCondition(Elapsed(i), timeout)
    /\ IF IsHttp(targets[i]) THEN FALSE ELSE RaisesValueError(targets[i])
    /\ attempts' = [attempts EXCEPT ![i] = Increment(@)]
    /\ Return(i, WaitResult(FALSE, targets[i], Increment(attempts[i]), Elapsed(i),
                            InvalidError))
    /\ UNCHANGED <<output, answer, success, config, now, start_time, interval, until, nprobes, nsleeps,
                   coord>>

\* lines 65, 92-93: the loop condition fails
TimedOut(i) ==
    /\ wpc[i] = "loop"
    /\ ~LoopCondition(Elapsed(i), timeout)
    /\ Return(i, WaitResult(FALSE, targets[i], attempts[i], Elapsed(i),
                            TimeoutError(timeout)))
    /\ UNCHANGED <<output, answer, success, config, now, start_time, attempts, interval, until, nprobes,
                   nsleeps, coord>>

\* lines 68-78: the probe meets an event and returns, success is assigned
ProbeReturns(i) ==
    /\ wpc[i] = "probe"
    /\ \E ev \in Events(targets[i], env[i], expected_status) :
         LET r == Probe(targets[i], expected_status, ev)
         IN  /\ ~r.raised
             /\ answer' = [answer EXCEPT ![i] = ev]
             /\ success' = [success EXCEPT ![i] = r.value]
    /\ wpc' = [wpc EXCEPT ![i] = "check"]
    /\ UNCHANGED <<output, config, now, start_time, attempts, interval, until, nprobes,
                   nsleeps, value, completed, coord>>

\* line 78: the probe raises, the exception leaves wait_for_target
ProbeRaises(i) ==
    /\ wpc[i] = "probe"
    /\ \E ev \in Events(targets[i], env[i], expected_status) :
         Probe(targets[i], expected_status, ev).raised
    /\ wpc' = [wpc EXCEPT ![i] = "raised"]
    /\ completed' = Append(completed, i)
    /\ UNCHANGED <<output, config, now, start_time, attempts, interval, until, nprobes,
                   nsleeps, answer, success, value, coord>>

\* lines 83-84: the probe returned true
ProbeSucceeds(i) ==
    /\ wpc[i] = "check"
    /\ success[i]
    /\ answer' = [answer EXCEPT ![i] = NoAnswer]
    /\ Return(i, WaitResult(TRUE, targets[i], attempts[i], Elapsed(i), NoError))
    /\ UNCHANGED <<output, config, now, start_time, attempts, interval, until, nprobes,
                   nsleeps, success, coord>>

\* lines 83-89: the probe returned false, the loop prints its progress when
\* verbose and goes to sleep
ProbeFails(i) ==
    /\ wpc[i] = "check"
    /\ ~success[i]
    /\ answer' = [answer EXCEPT ![i] = NoAnswer]
    /\ wpc' = [wpc EXCEPT ![i] = "sleep"]
    /\ nsleeps' = [nsleeps EXCEPT ![i] = @ + 1]
    /\ until' = [until EXCEPT ![i] = now + SleepTime(interval[i])]
    /\ printed' = IF verbose THEN printed + 1 ELSE printed
    /\ UNCHANGED <<quiet, json_output, config, now, start_time, attempts, interval, nprobes, success,
                   value, completed, coord>>

\* lines 89-90: the sleep ends, the interval is doubled and capped
Wake(i) ==
    /\ wpc[i] = "sleep"
    /\ now = until[i]
    /\ interval' = [interval EXCEPT ![i] = Backoff(@, max_interval)]
    /\ wpc' = [wpc EXCEPT ![i] = "loop"]
    /\ UNCHANGED <<output, answer, success, config, now, start_time, attempts, until, nprobes, nsleeps,
                   value, completed, coord>>

(***************************************************************************)
(* main (cli.py) and wait_for_multiple                                     *)
(***************************************************************************)
\* cli.py lines 56-58: one target, wait_for_target is called in main itself
MainSingle ==
    /\ pc = "main"
    /\ Len(targets) = 1
    /\ pc' = "single"
    /\ wpc' = [wpc EXCEPT ![1] = "loop"]
    /\ start_time' = [start_time EXCEPT ![1] = now]
    /\ attempts' = [attempts EXCEPT ![1] = 0]
    /\ interval' = [interval EXCEPT ![1] = initial_interval]
    /\ UNCHANGED <<output, answer, success, config, now, until, nprobes, nsleeps, value, completed,
                   snap, yielded, results, raising, exit_code>>

\* cli.py line 58: results = [result]
SingleReturn ==
    /\ pc = "single"
    /\ wpc[1] = "done"
    /\ results' = <<value[1]>>
    /\ pc' = "returned"
    /\ UNCHANGED <<output, config, now, worker, snap, yielded, raising, exit_code>>

\* cli.py line 57: the exception of wait_for_target leaves main
SingleRaises ==
    /\ pc = "single"
    /\ wpc[1] = "raised"
    /\ pc' = "raised"
    /\ UNCHANGED <<output, config, now, worker, snap, yielded, results, raising,
                   exit_code>>

\* cli.py lines 59-61, waiter.py lines 97-103: every target is submitted to
\* a pool that has one thread per target
Submit ==
    /\ pc = "main"
    /\ Len(targets) > 1
    /\ wpc' = [i \in Workers |-> "pending"]
    /\ results' = <<>>
    /\ pc' = "as_completed"
    /\ UNCHANGED <<output, answer, success, config, now, start_time, attempts, interval, until, nprobes,
                   nsleeps, value, completed, snap, yielded, raising, exit_code>>

\* line 104: as_completed starts with the futures that are finished already
AsCompleted ==
    /\ pc = "as_completed"
    /\ snap' = {i \in Workers : Terminal(i)}
    /\ pc' = "collect"
    /\ UNCHANGED <<output, config, now, worker, yielded, results, raising, exit_code>>

\* as_completed: the futures found finished are yielded first, in the order
\* of a set; the others follow in the order they complete
NextFuture(i) ==
    /\ i \notin yielded
    /\ Terminal(i)
    /\ IF snap \subseteq yielded
         THEN \A k \in 1..Len(completed) :
                 completed[k] = i =>
                     \A j \in 1..(k - 1) : completed[j] \in yielded
         ELSE i \in snap

\* executor.shutdown(wait=False, cancel_futures=True): the work items no
\* thread has taken are cancelled, the running calls go on
Shutdown(w) == [i \in Workers |-> IF w[i] = "pending" THEN "cancelled" ELSE w[i]]

\* lines 104-112: one iteration of the for loop over a future with a result
Collect(i) ==
    /\ pc = "collect"
    /\ NextFuture(i)
    /\ wpc[i] = "done"
    /\ results' = Append(results, value[i])
    /\ yielded' = yielded \cup {i}
    /\ IF EarlyReturn(all_mode, value[i])
         THEN /\ wpc' = Shutdown(wpc)
              /\ pc' = "exit_with"
         ELSE /\ wpc' = wpc
              /\ pc' = IF yielded' = Workers THEN "exit_with" ELSE "collect"
    /\ UNCHANGED <<output, answer, success, config, now, start_time, attempts, interval, until, nprobes,
                   nsleeps, value, completed, snap, raising, exit_code>>

\* line 105: future.result() raises what the call raised
CollectRaises(i) ==
    /\ pc = "collect"
    /\ NextFuture(i)
    /\ wpc[i] = "raised"
    /\ raising' = TRUE
    /\ pc' = "exit_with"
    /\ UNCHANGED <<output, config, now, worker, snap, yielded, results, exit_code>>

\* line 97: leaving the with block waits for every thread of the pool
ExitWith ==
    /\ pc = "exit_with"
    /\ AllJoined
    /\ pc' = IF raising THEN "raised" ELSE "returned"
    /\ UNCHANGED <<output, config, now, worker, snap, yielded, results, raising,
                   exit_code>>

\* cli.py lines 63-84: the report is printed as --json and --quiet say, and
\* the process exits
Exit ==
    /\ pc = "returned"
    /\ \E q, j \in BOOLEAN :
         /\ quiet' = q
         /\ json_output' = j
         /\ printed' = printed
                + Report(j, q, OverallSuccess(any_mode, results), results)
    /\ exit_code' = ExitCode(OverallSuccess(any_mode, results))
    /\ pc' = "exited"
    /\ UNCHANGED <<config, now, worker, snap, yielded, results, raising>>

\* an exception that leaves main ends the process with status 1
Crash ==
    /\ pc = "raised"
    /\ exit_code' = 1
    /\ pc' = "crashed"
    /\ UNCHANGED <<output, config, now, worker, snap, yielded, results, raising>>

\* main or wait_for_multiple has a statement to execute: it is not blocked in
\* as_completed nor in the join that ends the with block
CoordinatorReady ==
    \/ pc \in {"main", "as_completed", "returned", "raised"}
    \/ pc = "single" /\ Terminal(1)
    \/ pc = "collect" /\ \E i \in Workers : NextFuture(i)
    \/ pc = "exit_with" /\ AllJoined

\* The clock advances by one unit.  Only probes and sleeps take time: the
\* clock stands still while a statement other than these is ready to run,
\* a probe lasts connection_timeout at most and a sleep exactly its interval
Tick ==
    /\ \E i \in Workers : wpc[i] \in {"probe", "sleep"}
    /\ \A i \in Workers : wpc[i] \in {"probe", "sleep"} => now < until[i]
    /\ \A i \in Workers : wpc[i] \notin {"pending", "loop", "check"}
    /\ ~CoordinatorReady
    /\ now' = now + 1
    /\ UNCHANGED <<output, config, worker, coord>>

Next ==
    \/ MainSingle
    \/ SingleReturn
    \/ SingleRaises
    \/ Submit
    \/ AsCompleted
    \/ ExitWith
    \/ Exit
    \/ Crash
    \/ Tick
    \/ \E i \in Workers : Start(i)
    \/ \E i \in Workers : Attempt(i)
    \/ \E i \in Workers : InvalidTarget(i)
    \/ \E i \in Workers : TimedOut(i)
    \/ \E i \in Workers : ProbeReturns(i)
    \/ \E i \in Workers : ProbeSucceeds(i)
    \/ \E i \in Workers : ProbeFails(i)
    \/ \E i \in Workers : ProbeRaises(i)
    \/ \E i \in Workers : Wake(i)
    \/ \E i \in Workers : Collect(i)
    \/ \E i \in Workers : CollectRaises(i)

Spec == Init /\ [][Next]_vars

(***************************************************************************)
(* Properties                                                              *)
(***************************************************************************)
\* wait_for_multiple has returned a list in ANY mode after seeing a success
AnyReturned == pc = "returned" /\ Len(targets) > 1 /\ any_mode /\ any_success(results)

\* the future whose success ended the collection
Winner == CHOOSE w \in yielded : value[w].success

\* when the call of worker i ended
FinishTime(i) == start_time[i] + value[i].elapsed

\* position of worker i in the order of completion
Pos(i) == CHOOSE k \in 1..Len(completed) : completed[k] = i

IsTimeout(r) == ~r.success /\ r.error.text = TimeoutError(0).text

\* C1: in ANY mode wait_for_multiple returns before a loop that was still
\* failing when the first success came has run to its own overall timeout:
\* at the return no target has a timeout result that is later than the
\* winner's success.
C1_PromptReturn ==
    AnyReturned =>
        \A j \in Workers :
            (wpc[j] = "done" /\ IsTimeout(value[j]))
                => FinishTime(j) <= FinishTime(Winner)

\* C2: in ANY mode, once the coordinator has a successful outcome in its
\* results, no worker starts another probe.
C2_NoFurtherProbe ==
    [][(any_mode /\ Len(targets) > 1 /\ any_success(results))
          => nprobes' = nprobes]_vars

\* C3: in ANY mode the returned list holds the winner and the outcome of
\* every loop that finished before the winner did.
C3_FinishedBeforeWinner ==
    AnyReturned =>
        \A j \in Workers :
            (wpc[j] = "done" /\ Pos(j) <= Pos(Winner))
                => \E k \in 1..Len(results) : results[k] = value[j]

\* C4: in ALL mode wait_for_multiple returns only when every loop has ended,
\* and the returned list is the workers' outcomes, one per target, in some
\* order.
C4_AllModeComplete ==
    (pc = "returned" /\ Len(targets) > 1 /\ all_mode) =>
        /\ \A i \in Workers : wpc[i] = "done"
        /\ Len(results) = Len(targets)
        /\ \E p \in [1..Len(results) -> Workers] :
              /\ \A a, b \in 1..Len(results) : p[a] = p[b] => a = b
              /\ \A k \in 1..Len(results) : results[k] = value[p[k]]

\* an ALL-mode call over several targets returned a success and a failure
C4_Witness ==
    /\ pc = "returned" /\ Len(targets) > 1 /\ all_mode
    /\ \E a, b \in 1..Len(results) : results[a].success /\ ~results[b].success

\* number of successful outcomes in a list
Successes(rs) == Cardinality({k \in 1..Len(rs) : rs[k].success})

\* C5: the exit code is 0 when the overall result is a success for the mode
\* (ALL: every returned outcome is a success, ANY: at least one is) and 1
\* otherwise, for one target and for several.
C5_ExitCode ==
    pc = "exited" =>
        /\ exit_code \in {0, 1}
        /\ exit_code = 0 <=>
              IF any_mode THEN Successes(results) >= 1
                          ELSE Successes(results) = Len(results)

\* ANY mode ended with status 0 although one returned outcome is a failure
C5_Witness ==
    /\ pc = "exited" /\ any_mode /\ exit_code = 0
    /\ Len(results) > 1
    /\ \E k \in 1..Len(results) : ~results[k].success

\* C6: every outcome of wait_for_target has attempts >= 1.
C6_AtLeastOneAttempt ==
    \A i \in Workers : wpc[i] = "done" => value[i].attempts >= 1

\* C7: for a valid target whose probe always succeeds, wait_for_target returns
\* success after exactly one attempt and no sleep, without an error and with
\* the target string it was given.
C7_FirstProbeSucceeds ==
    \A i \in Workers :
        (wpc[i] = "done" /\ Probed(targets[i]) /\ env[i] = "up") =>
            /\ value[i].success
            /\ value[i].attempts = 1
            /\ value[i].error = NoError
            /\ value[i].target = targets[i]
            /\ nsleeps[i] = 0

\* C8: for a valid target whose probe always fails, wait_for_target returns a
\* failure whose elapsed time is at least the timeout and whose error is the
\* timeout message with the configured timeout.
C8_TimeoutOutcome ==
    \A i \in Workers :
        (wpc[i] = "done" /\ Probed(targets[i]) /\ env[i] = "down") =>
            /\ ~value[i].success
            /\ value[i].elapsed >= timeout
            /\ value[i].error = TimeoutError(timeout)

\* a loop whose probes all failed has timed out after more than one attempt
C8_Witness ==
    \E i \in Workers :
        /\ wpc[i] = "done" /\ Probed(targets[i]) /\ env[i] = "down"
        /\ value[i].attempts >= 2
        /\ timeout > 0

\* C9: the k-th sleep of a loop lasts min(initial_interval * 2^(k-1),
\* max_interval), so that no sleep is longer than max_interval.
C9_BackoffSequence ==
    \A i \in Workers :
        wpc[i] = "sleep" =>
            /\ until[i] - now <= max_interval
            /\ interval[i] =
                  Min(initial_interval * 2^(nsleeps[i] - 1), max_interval)

\* C10: for a target that is no URL and does not parse as host:port,
\* wait_for_target ends at once with the invalid-format error, 0 or 1
\* attempts, no probe and no sleep.
C10_InvalidTarget ==
    \A i \in Workers :
        (wpc[i] = "done" /\ ~IsHttp(targets[i]) /\ RaisesValueError(targets[i]))
            =>
            /\ ~value[i].success
            /\ value[i].error = InvalidError
            /\ value[i].attempts \in {0, 1}
            /\ value[i].elapsed = 0
            /\ nprobes[i] = 0
            /\ nsleeps[i] = 0

\* C11: wait_for_multiple never leaves by an exception: whatever the targets
\* and the mode, it ends by returning a list.
C11_NeverRaises == ~(Len(targets) > 1 /\ pc = "raised")

\* C12: a target that fails (parse error, failed probes, timeout) neither
\* stops nor shortens the loop of another target: a work item is cancelled
\* only after a success in ANY mode, every outcome is one the call returns
\* when run on its target alone, and in ALL mode the returned list holds the
\* outcome of every target.
C12_Isolation ==
    \A j \in Workers :
        /\ wpc[j] = "cancelled" => any_mode /\ any_success(results)
        /\ wpc[j] = "done" =>
              value[j] \in Solo(targets[j], env[j], 0, 0, initial_interval)
        /\ (pc = "returned" /\ Len(targets) > 1 /\ all_mode) =>
              \E k \in 1..Len(results) : results[k] = value[j]

\* ALL mode returned the outcome of a target that does not parse next to the
\* outcome of a loop that went through at least two attempts
C12_Witness ==
    /\ pc = "returned" /\ Len(targets) > 1 /\ all_mode
    /\ \E i, j \in Workers :
         /\ value[i].error = InvalidError
         /\ value[j].attempts >= 2
         /\ \E a, b \in 1..Len(results) :
               results[a] = value[i] /\ results[b] = value[j]

\* the length of the k-th sleep of a loop, k >= 1
RECURSIVE SleepLength(_)
SleepLength(k) ==
    IF k <= 1 THEN initial_interval
    ELSE Backoff(SleepLength(k - 1), max_interval)

\* the interval slept in the last iteration of the loop of worker i
LastSleep(i) == IF nsleeps[i] = 0 THEN 0 ELSE SleepLength(nsleeps[i])

\* C13: when a loop ends, its elapsed time exceeds the timeout by at most
\* connection_timeout plus the interval slept in its last iteration.
C13_Overshoot ==
    \A i \in Workers :
        wpc[i] = "done" =>
            value[i].elapsed <= timeout + connection_timeout + LastSleep(i)

\* a loop ended later than timeout + connection_timeout
C13_Witness ==
    \E i \in Workers :
        /\ wpc[i] = "done"
        /\ nsleeps[i] >= 2
        /\ value[i].elapsed > timeout + connection_timeout

\* C14: with --quiet the process that exits with a success has printed
\* nothing, and the process that exits with a failure has printed something.
C14_Quiet ==
    (pc = "exited" /\ quiet) =>
        IF exit_code = 0 THEN printed = 0 ELSE printed > 0

\* C15: a probe of an HTTP target never raises, and the value it returns is
\* true exactly when a response came whose status is expected_status.
C15_HttpProbe ==
    \A i \in Workers :
        IsHttp(targets[i]) =>
            /\ wpc[i] # "raised"
            /\ wpc[i] = "check" =>
                  (success[i] <=>
                      answer[i].exc = "none" /\ answer[i].code = expected_status)
            /\ (wpc[i] = "done" /\ value[i].success) => success[i]

\* a request that failed was followed by a request answered 201, as expected
C15_Witness ==
    \E i \in Workers :
        /\ IsHttp(targets[i]) /\ expected_status = 201
        /\ wpc[i] = "check" /\ success[i] /\ nprobes[i] >= 2
        /\ answer[i] = [exc |-> "none", code |-> 201]

\* C16: a probe of a host:port target never raises, and the value it returns
\* is true exactly when connect_ex returned 0.
C16_TcpProbe ==
    \A i \in Workers :
        ~IsHttp(targets[i]) =>
            /\ wpc[i] # "raised"
            /\ wpc[i] = "check" =>
                  (success[i] <=> answer[i].exc = "none" /\ answer[i].code = 0)

\* C17: the returned outcomes are in completion order: the list is the
\* outcomes of distinct futures, each of which completed before the futures
\* of the outcomes that follow it.
C17_CompletionOrder ==
    (Len(targets) > 1 /\ pc = "returned") =>
        \E p \in [1..Len(results) -> yielded] :
            /\ \A k \in 1..Len(results) : results[k] = value[p[k]]
            /\ \A a, b \in 1..Len(results) : a < b => Pos(p[a]) < Pos(p[b])

\* C18: an outcome has no error exactly when it is a success, and the error
\* of a failure is the timeout message or the invalid-format message.
C18_ErrorKinds ==
    \A i \in Workers :
        wpc[i] = "done" =>
            /\ value[i].error.text = "None" <=> value[i].success
            /\ ~value[i].success =>
                  \/ value[i].error.text = "Timeout after {timeout}s"
                       /\ value[i].error.arg = timeout
                  \/ value[i].error.text =
                       "Invalid target format. Use host:port or http(s)://url"

\* a loop whose probes failed has returned its failure
C18_Witness ==
    \E i \in Workers :
        wpc[i] = "done" /\ ~value[i].success /\ nprobes[i] >= 2

\* C19: in the loop of a valid target every probe but the first follows a
\* sleep and every sleep follows a failed probe, attempts is the number of
\* probe calls, and a successful probe is the last thing the loop does.
C19_Sequential ==
    \A i \in Workers :
        Probed(targets[i]) =>
            /\ attempts[i] = nprobes[i]
            /\ wpc[i] \in {"probe", "check"} => nsleeps[i] = nprobes[i] - 1
            /\ wpc[i] \in {"loop", "sleep"} => nsleeps[i] = nprobes[i]
            /\ wpc[i] = "done" =>
                  /\ value[i].attempts = nprobes[i]
                  /\ nsleeps[i] = IF value[i].success THEN nprobes[i] - 1
                                                     ELSE nprobes[i]

\* a loop succeeded at its third probe
C19_Witness ==
    \E i \in Workers :
        wpc[i] = "done" /\ value[i].success /\ nprobes[i] = 3

\* the call wait_for_target(targets[i]) has been entered
Started(i) == wpc[i] \notin {"idle", "pending", "cancelled"}

\* C20: a loop that has left Running has ended in Success, TimedOut or
\* InvalidTarget and has produced exactly one outcome.
C20_EndsInTerminalState ==
    \A i \in Workers :
        (Started(i) /\ ~Running(i)) =>
            /\ wpc[i] = "done"
            /\ value[i] # NoResult
            /\ Cardinality({k \in 1..Len(completed) : completed[k] = i}) = 1

\* C21: in ANY mode the list wait_for_multiple returns holds at most one
\* success, and a success in it is its last element.
C21_OneSuccessLast ==
    (Len(targets) > 1 /\ pc = "returned" /\ any_mode) =>
        /\ Cardinality({k \in 1..Len(results) : results[k].success}) <= 1
        /\ \A k \in 1..Len(results) : results[k].success => k = Len(results)

\* ANY mode has returned a list that ends with its success after a failure
C21_Witness ==
    /\ Len(targets) > 1 /\ pc = "returned" /\ any_mode
    /\ Len(results) >= 2
    /\ results[Len(results)].success
    /\ ~results[1].success

\* C22: once wait_for_multiple has handed control back to main, by a return
\* or by an exception, no call of wait_for_target it submitted is running or
\* waiting to be run.
C22_NoneRunning ==
    (Len(targets) > 1 /\ pc \in {"returned", "raised", "exited", "crashed"}) =>
        \A i \in Workers : ~Running(i) /\ wpc[i] # "pending"

\* ANY mode has returned after a success, and a loop it never collected had
\* gone on probing until it finished
C22_Witness ==
    /\ AnyReturned
    /\ \E i \in Workers :
          i \notin yielded /\ wpc[i] = "done" /\ nprobes[i] >= 2

(***************************************************************************)
(* What the code does guarantee where C6, C7, C9 and C10 fail: each of     *)
(* them holds once the loop body is entered (timeout > 0), respectively    *)
(* once the initial interval does not exceed the cap.                      *)
(***************************************************************************)
AttemptsWithPositiveTimeout == timeout > 0 => C6_AtLeastOneAttempt

FirstProbeWithPositiveTimeout == timeout > 0 => C7_FirstProbeSucceeds

InvalidTargetWithPositiveTimeout == timeout > 0 => C10_InvalidTarget

BackoffWithinCap == initial_interval <= max_interval => C9_BackoffSequence

(***************************************************************************)
(* Termination.  With the steps of Next taken as long as one is enabled    *)
(* (every probe and every sleep returns, the clock advances) every loop    *)
(* that runs comes to an end: by an outcome or by the exception of C16.    *)
(***************************************************************************)
FairSpec == Spec /\ WF_vars(Next)

LoopEnds ==
    \A i \in 1..MaxTargets :
        (i \in Workers /\ Running(i)) ~> (i \in Workers /\ ~Running(i))

=============================================================================
